---------------------------- MODULE Spec2Model ----------------------------
(***************************************************************************)
(* Pattern normalization of eden/scm/lib/pathmatcher/src/pattern.rs.      *)
(*                                                                         *)
(* A Rust string is a sequence of one-character strings, so that          *)
(* split_once, starts_with, lines and split are computed on characters.   *)
(* A PatternKind is the name of its enum variant.                         *)
(***************************************************************************)
EXTENDS Naturals, Sequences, FiniteSets

(***************************************************************************)
(* Bounds of the model.                                                    *)
(***************************************************************************)
\* longest sequence of raw patterns handed to normalize_patterns
MaxPatterns == 2
\* deepest stack of normalize_patterns calls the model follows
MaxDepth == 3

(***************************************************************************)
(* String helpers (std::str).                                              *)
(***************************************************************************)
\* index of the first occurrence of ch in s, 0 when there is none
IndexOf(s, ch) ==
    IF \E i \in 1..Len(s) : s[i] = ch
    THEN CHOOSE i \in 1..Len(s) : s[i] = ch /\ \A j \in 1..(i - 1) : s[j] # ch
    ELSE 0

\* str::split_once(ch)
split_once(s, ch) ==
    LET i == IndexOf(s, ch)
    IN  IF i = 0 THEN [some |-> FALSE, k |-> <<>>, p |-> <<>>]
        ELSE [some |-> TRUE, k |-> SubSeq(s, 1, i - 1), p |-> SubSeq(s, i + 1, Len(s))]

\* str::starts_with(ch)
starts_with(s, ch) == Len(s) > 0 /\ s[1] = ch

\* str::split(ch): a sequence of strings, never empty
RECURSIVE split(_, _)
split(s, ch) ==
    LET i == IndexOf(s, ch)
    IN  IF i = 0 THEN <<s>>
        ELSE <<SubSeq(s, 1, i - 1)>> \o split(SubSeq(s, i + 1, Len(s)), ch)

\* str::lines(): split after each "\n"; the "\n" and a "\r" right before it are
\* dropped; no line follows a final "\n"
RECURSIVE lines(_)
lines(s) ==
    LET i == IndexOf(s, "\n")
        strip(l) == IF Len(l) > 0 /\ l[Len(l)] = "\r" THEN SubSeq(l, 1, Len(l) - 1) ELSE l
    IN  IF Len(s) = 0 THEN <<>>
        ELSE IF i = 0 THEN <<s>>
        ELSE <<strip(SubSeq(s, 1, i - 1))>> \o lines(SubSeq(s, i + 1, Len(s)))

\* strings joined with sep between them
RECURSIVE join(_, _)
join(ss, sep) ==
    IF Len(ss) = 0 THEN <<>>
    ELSE IF Len(ss) = 1 THEN ss[1]
    ELSE ss[1] \o sep \o join(Tail(ss), sep)

\* concatenation of a sequence of sequences
RECURSIVE Flatten(_)
Flatten(ss) == IF Len(ss) = 0 THEN <<>> ELSE ss[1] \o Flatten(Tail(ss))

(***************************************************************************)
(* PatternKind.                                                            *)
(***************************************************************************)
PatternKind ==
    {"RE", "Glob", "Path", "RelGlob", "RelPath", "RelRE",
     "ListFile", "ListFile0", "Set", "RootFilesIn"}

s_re == <<"r", "e">>
s_glob == <<"g", "l", "o", "b">>
s_path == <<"p", "a", "t", "h">>
s_relglob == <<"r", "e", "l", "g", "l", "o", "b">>
s_relpath == <<"r", "e", "l", "p", "a", "t", "h">>
s_relre == <<"r", "e", "l", "r", "e">>
s_listfile == <<"l", "i", "s", "t", "f", "i", "l", "e">>
s_listfile0 == <<"l", "i", "s", "t", "f", "i", "l", "e", "0">>
s_set == <<"s", "e", "t">>
s_rootfilesin == <<"r", "o", "o", "t", "f", "i", "l", "e", "s", "i", "n">>

\* PatternKind::name
name(kind) ==
    CASE kind = "RE" -> s_re
      [] kind = "Glob" -> s_glob
      [] kind = "Path" -> s_path
      [] kind = "RelGlob" -> s_relglob
      [] kind = "RelPath" -> s_relpath
      [] kind = "RelRE" -> s_relre
      [] kind = "ListFile" -> s_listfile
      [] kind = "ListFile0" -> s_listfile0
      [] kind = "Set" -> s_set
      [] kind = "RootFilesIn" -> s_rootfilesin

is_glob(kind) == kind \in {"Glob", "RelGlob"}
is_path(kind) == kind \in {"Path", "RelPath", "RootFilesIn"}
is_regex(kind) == kind \in {"RE", "RelRE"}
is_recursive(kind) == kind \in {"Path", "RelPath"}
is_cwd_relative(kind) == kind \in {"RelPath", "Glob"}
is_free(kind) == kind \in {"RelGlob", "RelRE"}

\* Error values: the variant and its fields
UnsupportedPatternKind(s) == [type |-> "UnsupportedPatternKind", a |-> s, b |-> <<>>]
PathOutsideRoot(pat, rt) == [type |-> "PathOutsideRoot", a |-> pat, b |-> rt]
NonUtf8(s) == [type |-> "NonUtf8", a |-> s, b |-> <<>>]
IoError(path) == [type |-> "Io", a |-> path, b |-> <<>>]

\* Result values
Ok(v) == [ok |-> TRUE, val |-> v, err |-> <<>>]
Err(e) == [ok |-> FALSE, val |-> <<>>, err |-> e]

\* a from_str that takes "listfile0" for the listfile kind
from_str_merged(s) ==
    CASE s = s_re -> Ok("RE")
      [] s = s_glob -> Ok("Glob")
      [] s = s_path -> Ok("Path")
      [] s = s_relglob -> Ok("RelGlob")
      [] s = s_relpath -> Ok("RelPath")
      [] s = s_relre -> Ok("RelRE")
      [] s = s_listfile -> Ok("ListFile")
      [] s = s_listfile0 -> Ok("ListFile")
      [] s = s_set -> Ok("Set")
      [] s = s_rootfilesin -> Ok("RootFilesIn")
      [] OTHER -> Err(UnsupportedPatternKind(s))

\* <PatternKind as FromStr>::from_str
from_str(s) ==
    CASE s = s_re -> Ok("RE")
      [] s = s_glob -> Ok("Glob")
      [] s = s_path -> Ok("Path")
      [] s = s_relglob -> Ok("RelGlob")
      [] s = s_relpath -> Ok("RelPath")
      [] s = s_relre -> Ok("RelRE")
      [] s = s_listfile -> Ok("ListFile")
      [] s = s_listfile0 -> Ok("ListFile0")
      [] s = s_set -> Ok("Set")
      [] s = s_rootfilesin -> Ok("RootFilesIn")
      [] OTHER -> Err(UnsupportedPatternKind(s))

\* a split that drops an unrecognized prefix
split_pattern_partial(pattern, default_kind) ==
    LET so == split_once(pattern, ":")
    IN  IF so.some
        THEN IF from_str(so.k).ok
             THEN [kind |-> from_str(so.k).val, pat |-> so.p]
             ELSE [kind |-> default_kind, pat |-> so.p]
        ELSE [kind |-> default_kind, pat |-> pattern]

\* split_pattern
split_pattern(pattern, default_kind) ==
    LET so == split_once(pattern, ":")
    IN  IF so.some
        THEN IF from_str(so.k).ok
             THEN [kind |-> from_str(so.k).val, pat |-> so.p]
             ELSE [kind |-> default_kind, pat |-> pattern]
        ELSE [kind |-> default_kind, pat |-> pattern]

\* Pattern::new
Pattern_new(kind, pattern) == [kind |-> kind, pattern |-> pattern, source |-> <<"None">>]

\* a with_source that keeps a source already set
with_source_keep(p, source) ==
    IF p.source = <<"None">> THEN [p EXCEPT !.source = <<"Some", source>>] ELSE p

\* Pattern::with_source
with_source(p, source) == [p EXCEPT !.source = <<"Some", source>>]

(***************************************************************************)
(* Path utilities (util::path).                                            *)
(***************************************************************************)
\* a byte that is not valid UTF-8 (only a Path can hold one, never a String),
\* and the U+FFFD that to_string_lossy puts in its place
BadByte == "<ff>"
Replacement == "<fffd>"

NonEmpty(c) == Len(c) > 0

\* Path::components, the root directory left out
Components(path) == SelectSeq(split(path, "/"), NonEmpty)

\* the components with "." dropped and ".." removing the component before it
RECURSIVE Resolve(_, _)
Resolve(done, comps) ==
    IF Len(comps) = 0 THEN done
    ELSE IF comps[1] = <<".">> THEN Resolve(done, Tail(comps))
    ELSE IF comps[1] = <<".", ".">>
         THEN Resolve(IF Len(done) = 0 THEN done ELSE SubSeq(done, 1, Len(done) - 1),
                      Tail(comps))
    ELSE Resolve(Append(done, comps[1]), Tail(comps))

\* util::path::normalize
normalize(path) ==
    LET body == join(Resolve(<<>>, Components(path)), <<"/">>)
    IN  IF starts_with(path, "/") THEN <<"/">> \o body
        ELSE IF body = <<>> THEN <<".">>
        ELSE body

\* util::path::root_relative_path: path taken relative to cwd, then relative to
\* root; none when it is not under root
root_relative_path(rt, cwd_, path) ==
    LET full == IF starts_with(path, "/") THEN path ELSE cwd_ \o <<"/">> \o path
        cs == Resolve(<<>>, Components(full))
        rs == Resolve(<<>>, Components(rt))
    IN  IF Len(rs) <= Len(cs) /\ SubSeq(cs, 1, Len(rs)) = rs
        THEN [some |-> TRUE, path |-> join(SubSeq(cs, Len(rs) + 1, Len(cs)), <<"/">>)]
        ELSE [some |-> FALSE, path |-> <<>>]

\* OsString::into_string succeeds
IsUtf8(s) == \A i \in 1..Len(s) : s[i] # BadByte

\* to_string_lossy
to_string_lossy(s) == [i \in 1..Len(s) |-> IF s[i] = BadByte THEN Replacement ELSE s[i]]

\* normalize_path_pattern (not windows)
normalize_path_pattern(pattern) == normalize(pattern)

(***************************************************************************)
(* Glob utilities (crate::utils).                                          *)
(***************************************************************************)
GlobMeta == {"\\", "*", "{", "}", "[", "]", "?"}

\* plain_to_glob: a backslash before every glob metacharacter
plain_to_glob(plain) ==
    Flatten([i \in 1..Len(plain) |->
                IF plain[i] \in GlobMeta THEN <<"\\", plain[i]>> ELSE <<plain[i]>>])

\* normalize_glob: "**" made a path component of its own
RECURSIVE normalize_glob_from(_, _)
normalize_glob_from(pat, i) ==
    IF i > Len(pat) THEN <<>>
    ELSE IF pat[i] = "\\" /\ i < Len(pat)
         THEN <<pat[i], pat[i + 1]>> \o normalize_glob_from(pat, i + 2)
    ELSE IF pat[i] = "*" /\ i < Len(pat) /\ pat[i + 1] = "*"
         THEN (IF i > 1 /\ pat[i - 1] # "/" THEN <<"*", "/">> ELSE <<>>)
              \o <<"*", "*">>
              \o (IF i + 2 <= Len(pat) /\ pat[i + 2] # "/" THEN <<"/", "*">> ELSE <<>>)
              \o normalize_glob_from(pat, i + 2)
    ELSE <<pat[i]>> \o normalize_glob_from(pat, i + 1)

normalize_glob(pat) == normalize_glob_from(pat, 1)

\* make_glob_recursive
make_glob_recursive(pat) ==
    IF pat = <<>> THEN <<"*", "*">> ELSE pat \o <<"/", "*", "*">>

\* expand_curly_brackets: one string per choice of an alternative in every
\* {a,b} group, groups not nested
RECURSIVE expand_curly_brackets(_)
expand_curly_brackets(pat) ==
    LET i == IndexOf(pat, "{")
        rest == SubSeq(pat, i + 1, Len(pat))
        j == IndexOf(rest, "}")
        alts == split(SubSeq(rest, 1, j - 1), ",")
        tails == expand_curly_brackets(SubSeq(rest, j + 1, Len(rest)))
    IN  IF i = 0 \/ j = 0 THEN <<pat>>
        ELSE Flatten([a \in 1..Len(alts) |->
                        [t \in 1..Len(tails) |->
                            SubSeq(pat, 1, i - 1) \o alts[a] \o tails[t]]])

(***************************************************************************)
(* The file system read by util::file::read_to_string.                     *)
(***************************************************************************)
\* glob:a{b,c}\nre:^x
file_l1 ==
    <<"g", "l", "o", "b", ":", "a", "{", "b", ",", "c", "}", "\n", "r", "e", ":", "^", "x">>
\* path:p\r\n*.c\r\n
file_l2 ==
    <<"p", "a", "t", "h", ":", "p", "\r", "\n", "*", ".", "c", "\r", "\n">>
\* relre:y NUL a
file_z1 == <<"r", "e", "l", "r", "e", ":", "y", "<nul>", "a">>
\* listfile:l1\nrelre:y
file_n1 ==
    <<"l", "i", "s", "t", "f", "i", "l", "e", ":", "l", "1", "\n", "r", "e", "l", "r", "e", ":", "y">>
\* re:a\nset:x\nre:b
file_e1 ==
    <<"r", "e", ":", "a", "\n", "s", "e", "t", ":", "x", "\n", "r", "e", ":", "b">>
\* listfile:cy (a file that names itself)
file_cy == <<"l", "i", "s", "t", "f", "i", "l", "e", ":", "c", "y">>

FileNames == {<<"l", "1">>, <<"l", "2">>, <<"z", "1">>, <<"n", "1">>, <<"e", "1">>, <<"c", "y">>}

\* util::file::read_to_string
read_to_string(path) ==
    CASE path = <<"l", "1">> -> Ok(file_l1)
      [] path = <<"l", "2">> -> Ok(file_l2)
      [] path = <<"z", "1">> -> Ok(file_z1)
      [] path = <<"n", "1">> -> Ok(file_n1)
      [] path = <<"e", "1">> -> Ok(file_e1)
      [] path = <<"c", "y">> -> Ok(file_cy)
      [] OTHER -> Err(IoError(path))

(***************************************************************************)
(* The stages normalize_patterns applies to one candidate of kind `kind`.  *)
(***************************************************************************)
\* a relativization that clamps a path outside the root to the root
cwd_relativize_clamp(kind, pat, rt, cwd_) ==
    IF is_cwd_relative(kind)
    THEN LET r == root_relative_path(rt, cwd_, pat)
         IN  IF r.some
             THEN IF IsUtf8(r.path) THEN Ok(r.path)
                  ELSE Err(NonUtf8(to_string_lossy(r.path)))
             ELSE Ok(<<>>)
    ELSE Ok(pat)

\* Normalize CWD-relative patterns to be relative to repo root.
cwd_relativize(kind, pat, rt, cwd_) ==
    IF is_cwd_relative(kind)
    THEN LET r == root_relative_path(rt, cwd_, pat)
         IN  IF r.some
             THEN IF IsUtf8(r.path) THEN Ok(r.path)
                  ELSE Err(NonUtf8(to_string_lossy(r.path)))
             ELSE Err(PathOutsideRoot(pat, to_string_lossy(rt)))
    ELSE Ok(pat)

\* Clean up path and normalize to "/" path separator.
clean_path(kind, pat) ==
    IF is_glob(kind) \/ is_path(kind)
    THEN LET n == normalize_path_pattern(pat)
         IN  IF n = <<".">> THEN <<>> ELSE n
    ELSE pat

\* Escape glob characters so we can convert non-glob patterns into globs.
escape_path(kind, pat) == IF is_path(kind) THEN plain_to_glob(pat) ELSE pat

\* Make our loose globbing compatible with the tree matcher's strict globbing.
tighten_glob(kind, pat) == IF is_glob(kind) THEN normalize_glob(pat) ELSE pat

recursive_kind(kind, pat) == IF is_recursive(kind) THEN make_glob_recursive(pat) ELSE pat

\* a forced suffix that does not look at the kind
force_recursive_any(kind, pat, force_recursive_glob_) ==
    IF force_recursive_glob_ THEN make_glob_recursive(pat) ELSE pat

\* This is to make "-I" and "-X" globs recursive by default.
force_recursive(kind, pat, force_recursive_glob_) ==
    IF force_recursive_glob_ /\ is_glob(kind) THEN make_glob_recursive(pat) ELSE pat

\* an unrooting that does not look whether the pattern is empty
unroot_always(kind, pat) ==
    IF is_glob(kind) /\ is_free(kind) THEN <<"*", "*", "/">> \o pat ELSE pat

\* relglob is unrooted, so give it a leading "**".
unroot(kind, pat) ==
    IF is_glob(kind) /\ is_free(kind) /\ pat # <<>> THEN <<"*", "*", "/">> \o pat ELSE pat

\* rootfilesin matches a directory non-recursively
rootfilesin(kind, pat) ==
    IF kind = "RootFilesIn"
    THEN IF pat = <<>> THEN <<"*">> ELSE pat \o <<"/", "*">>
    ELSE pat

\* an anchoring that gives every free regex the ".*?" prefix, anchored or not
regex_anchor_always(kind, pat) ==
    IF is_regex(kind)
    THEN LET anchored == starts_with(pat, "^")
             stripped == IF anchored THEN SubSeq(pat, 2, Len(pat)) ELSE pat
         IN  IF is_free(kind) THEN <<".", "*", "?">> \o stripped ELSE stripped
    ELSE pat

\* "^" is not required - strip it; relre without "^" needs leading ".*?"
regex_anchor(kind, pat) ==
    IF is_regex(kind)
    THEN LET anchored == starts_with(pat, "^")
             stripped == IF anchored THEN SubSeq(pat, 2, Len(pat)) ELSE pat
         IN  IF ~anchored /\ is_free(kind) THEN <<".", "*", "?">> \o stripped ELSE stripped
    ELSE pat

\* the body of the inner loop up to the emit-or-recurse decision
rewrite(kind, pat, rt, cwd_, force_recursive_glob_) ==
    LET r == cwd_relativize(kind, pat, rt, cwd_)
    IN  IF ~r.ok THEN r
        ELSE Ok(regex_anchor(kind,
                 rootfilesin(kind,
                  unroot(kind,
                   force_recursive(kind,
                    recursive_kind(kind,
                     tighten_glob(kind,
                      escape_path(kind,
                       clean_path(kind, r.val)))),
                    force_recursive_glob_)))))

(***************************************************************************)
(* The inputs of the modelled calls.                                       *)
(***************************************************************************)
\* pattern texts: (empty) | . | .. | a | ../a{b,c}d | /root/foo/*.c | *.c | foo* | ^foo | a.* | x:y | ../.. | a** | l1 | n1 | e1 | z1 | no | ^^a | l2 | cy
Bodies ==
    {<<>>,
     <<".">>,
     <<".", ".">>,
     <<"a">>,
     <<".", ".", "/", "a", "{", "b", ",", "c", "}", "d">>,
     <<"/", "r", "o", "o", "t", "/", "f", "o", "o", "/", "*", ".", "c">>,
     <<"*", ".", "c">>,
     <<"f", "o", "o", "*">>,
     <<"^", "f", "o", "o">>,
     <<"a", ".", "*">>,
     <<"x", ":", "y">>,
     <<".", ".", "/", ".", ".">>,
     <<"a", "*", "*">>,
     <<"l", "1">>,
     <<"n", "1">>,
     <<"e", "1">>,
     <<"z", "1">>,
     <<"n", "o">>,
     <<"^", "^", "a">>,
     <<"l", "2">>,
     <<"c", "y">>}

\* what stands before the first colon: the 10 kind names, two that are not, and nothing
Prefixes ==
    {<<"r", "e">>,
     <<"g", "l", "o", "b">>,
     <<"p", "a", "t", "h">>,
     <<"r", "e", "l", "g", "l", "o", "b">>,
     <<"r", "e", "l", "p", "a", "t", "h">>,
     <<"r", "e", "l", "r", "e">>,
     <<"l", "i", "s", "t", "f", "i", "l", "e">>,
     <<"l", "i", "s", "t", "f", "i", "l", "e", "0">>,
     <<"s", "e", "t">>,
     <<"r", "o", "o", "t", "f", "i", "l", "e", "s", "i", "n">>,
     <<"b", "a", "d", "k", "i", "n", "d">>,
     <<"R", "E">>,
     <<>>}

\* the raw patterns longer inputs are made of: n | relpath:foo/b{a}r | glob:a{b,c} | set:x | glob:../.. | listfile:n1
ListPool ==
    {<<"n">>,
     <<"r", "e", "l", "p", "a", "t", "h", ":", "f", "o", "o", "/", "b", "{", "a", "}", "r">>,
     <<"g", "l", "o", "b", ":", "a", "{", "b", ",", "c", "}">>,
     <<"s", "e", "t", ":", "x">>,
     <<"g", "l", "o", "b", ":", ".", ".", "/", ".", ".">>,
     <<"l", "i", "s", "t", "f", "i", "l", "e", ":", "n", "1">>}

\* one raw pattern: a text with or without a prefix
RawPatterns == Bodies \cup {pre \o <<":">> \o body : pre \in Prefixes, body \in Bodies}

\* all sequences over S of length at most n
RECURSIVE SeqsUpTo(_, _)
SeqsUpTo(S, n) ==
    IF n = 0 THEN {<<>>}
    ELSE LET shorter == SeqsUpTo(S, n - 1)
         IN  shorter \cup {Append(s, x) : s \in shorter, x \in S}

\* the sub-patterns of a list file's contents
sub_patterns(kind, contents) ==
    IF kind = "ListFile" THEN lines(contents) ELSE split(contents, "<nul>")

\* what each file holds, read as a listfile and as a listfile0
FileLists ==
    {sub_patterns(k, read_to_string(f).val) : k \in {"ListFile", "ListFile0"}, f \in FileNames}

Inputs == {<<p>> : p \in RawPatterns} \cup SeqsUpTo(ListPool, MaxPatterns) \cup FileLists

\* (root, cwd): cwd below root, cwd the root itself, cwd with a non-UTF-8 name
Dirs ==
    {<<<<"/", "r", "o", "o", "t">>, <<"/", "r", "o", "o", "t", "/", "c", "w", "d">>>>,
     <<<<"/", "r", "o", "o", "t">>, <<"/", "r", "o", "o", "t">>>>,
     <<<<"/", "r", "o", "o", "t">>, <<"/", "r", "o", "o", "t", "/", BadByte>>>>}

(***************************************************************************)
(* normalize_patterns as a machine: one frame per call in progress.        *)
(***************************************************************************)
VARIABLES
    patterns,               \* arguments of the outermost call
    default_kind,
    root,
    cwd,
    force_recursive_glob,
    stack,                  \* the calls in progress, the innermost last
    ret                     \* the value the call that just returned handed back

vars == <<patterns, default_kind, root, cwd, force_recursive_glob, stack, ret>>
args == <<patterns, default_kind, root, cwd, force_recursive_glob>>

NoRet == [status |-> "none", val |-> <<>>, err |-> <<>>]
RetOk(v) == [status |-> "Ok", val |-> v, err |-> <<>>]
RetErr(e) == [status |-> "Err", val |-> <<>>, err |-> e]

\* a call's locals on entry: `result` empty, no pattern taken yet
Frame(ps, force) ==
    [patterns |-> ps, force |-> force, i |-> 0, kind |-> "",
     pats |-> <<>>, j |-> 1, result |-> <<>>]

Init ==
    /\ patterns \in Inputs
    /\ default_kind \in PatternKind
    /\ \E d \in Dirs : root = d[1] /\ cwd = d[2]
    /\ force_recursive_glob \in BOOLEAN
    /\ stack = <<Frame(patterns, force_recursive_glob)>>
    /\ ret = NoRet

Top == stack[Len(stack)]
Running == Len(stack) > 0 /\ ret.status = "none"
InCandidate == Running /\ Top.j <= Len(Top.pats)
SetTop(f) == [stack EXCEPT ![Len(stack)] = f]
Pop == SubSeq(stack, 1, Len(stack) - 1)

\* the candidate the innermost call is at, rewritten
Rewritten == rewrite(Top.kind, Top.pats[Top.j], root, cwd, Top.force)

\* a push that puts the new entity in front
push_front(result, p) == <<p>> \o result

\* Vec::push
push(result, p) == Append(result, p)

\* the outer flag handed on to the call for a list file's contents
inner_force_outer(force) == force

\* the flag the call made for a list file's contents gets
inner_force(force) == FALSE

\* what the caller pushes for the patterns a list file's call returned
sourced(ps, pat) == [k \in 1..Len(ps) |-> with_source(ps[k], pat)]

\* for pattern in patterns: split the next raw pattern and expand its curlies
TakePattern ==
    /\ Running /\ Top.j > Len(Top.pats) /\ Top.i < Len(Top.patterns)
    /\ LET sp == split_pattern(Top.patterns[Top.i + 1], default_kind)
       IN  stack' = SetTop([Top EXCEPT
                       !.i = Top.i + 1,
                       !.kind = sp.kind,
                       !.pats = IF is_glob(sp.kind) THEN expand_curly_brackets(sp.pat)
                                ELSE <<sp.pat>>,
                       !.j = 1])
    /\ UNCHANGED <<args, ret>>

\* root_relative_path gave none, or a path that is not UTF-8: return Err
FailRewrite ==
    /\ InCandidate /\ ~Rewritten.ok
    /\ stack' = Pop
    /\ ret' = RetErr(Rewritten.err)
    /\ UNCHANGED args

\* result.push(Pattern::new(kind, pat))
Emit ==
    /\ InCandidate /\ Rewritten.ok
    /\ is_glob(Top.kind) \/ is_path(Top.kind) \/ is_regex(Top.kind)
    /\ stack' = SetTop([Top EXCEPT
                   !.result = push(Top.result, Pattern_new(Top.kind, Rewritten.val)),
                   !.j = Top.j + 1])
    /\ UNCHANGED <<args, ret>>

\* read_to_string(&pat)? failed: return Err
FailRead ==
    /\ InCandidate /\ Rewritten.ok
    /\ Top.kind \in {"ListFile", "ListFile0"}
    /\ ~read_to_string(Rewritten.val).ok
    /\ stack' = Pop
    /\ ret' = RetErr(read_to_string(Rewritten.val).err)
    /\ UNCHANGED args

\* normalize_patterns(contents.lines() or .split('\0'), default_kind, root, cwd, false)
Recurse ==
    /\ InCandidate /\ Rewritten.ok
    /\ Top.kind \in {"ListFile", "ListFile0"}
    /\ read_to_string(Rewritten.val).ok
    /\ Len(stack) < MaxDepth
    /\ stack' = Append(stack,
                   Frame(sub_patterns(Top.kind, read_to_string(Rewritten.val).val),
                         inner_force(Top.force)))
    /\ UNCHANGED <<args, ret>>

\* an unsupported kind that is passed over
FailUnsupported_skip ==
    /\ InCandidate /\ Rewritten.ok
    /\ ~(is_glob(Top.kind) \/ is_path(Top.kind) \/ is_regex(Top.kind))
    /\ Top.kind \notin {"ListFile", "ListFile0"}
    /\ stack' = SetTop([Top EXCEPT !.j = Top.j + 1])
    /\ UNCHANGED <<args, ret>>

\* an unsupported kind that ends the call with what was collected so far
FailUnsupported_partial ==
    /\ InCandidate /\ Rewritten.ok
    /\ ~(is_glob(Top.kind) \/ is_path(Top.kind) \/ is_regex(Top.kind))
    /\ Top.kind \notin {"ListFile", "ListFile0"}
    /\ stack' = Pop
    /\ ret' = RetOk(Top.result)
    /\ UNCHANGED args

\* return Err(Error::UnsupportedPatternKind(kind.name()))
FailUnsupported ==
    /\ InCandidate /\ Rewritten.ok
    /\ ~(is_glob(Top.kind) \/ is_path(Top.kind) \/ is_regex(Top.kind))
    /\ Top.kind \notin {"ListFile", "ListFile0"}
    /\ stack' = Pop
    /\ ret' = RetErr(UnsupportedPatternKind(name(Top.kind)))
    /\ UNCHANGED args

\* Ok(result)
ReturnOk ==
    /\ Running /\ Top.j > Len(Top.pats) /\ Top.i = Len(Top.patterns)
    /\ stack' = Pop
    /\ ret' = RetOk(Top.result)
    /\ UNCHANGED args

\* the recursive call returned Ok: for p in patterns { result.push(p.with_source(pat)) }
PushSourced ==
    /\ Len(stack) > 0 /\ ret.status = "Ok"
    /\ stack' = SetTop([Top EXCEPT
                   !.result = Top.result \o sourced(ret.val, Rewritten.val),
                   !.j = Top.j + 1])
    /\ ret' = NoRet
    /\ UNCHANGED args

\* an Err of the recursive call that is dropped and the list file tried again
Propagate_retry ==
    /\ Len(stack) > 0 /\ ret.status = "Err"
    /\ ret' = NoRet
    /\ UNCHANGED <<args, stack>>

\* the recursive call returned Err: the `?` returns it from the caller as it is
Propagate ==
    /\ Len(stack) > 0 /\ ret.status = "Err"
    /\ stack' = Pop
    /\ ret' = ret
    /\ UNCHANGED args

Next ==
    \/ TakePattern
    \/ FailRewrite
    \/ Emit
    \/ FailRead
    \/ Recurse
    \/ FailUnsupported
    \/ ReturnOk
    \/ PushSourced
    \/ Propagate

Spec == Init /\ [][Next]_vars

\* the outermost call has returned
Returned == Len(stack) = 0 /\ ret.status # "none"

\* the call is at a readable list file whose call would nest deeper than the
\* modelled depth: the code goes on recursing, the model takes no further step
Stalled ==
    /\ InCandidate /\ Rewritten.ok
    /\ Top.kind \in {"ListFile", "ListFile0"}
    /\ read_to_string(Rewritten.val).ok
    /\ Len(stack) >= MaxDepth

\* no statement of the model can run
Halted == Returned \/ Stalled

\* The code runs one statement after the other until the outermost call
\* returns: weak fairness of Next.  This is WF_vars(Next) with its
\* ENABLED <<Next>>_vars written out as ~Halted.
FairSpec == Spec /\ ([]<>Halted \/ []<><<Next>>_vars)

(***************************************************************************)
(* What a call is expected to return, composed from the outputs of its     *)
(* raw patterns taken one at a time.  A list file's output is that of its  *)
(* sub-patterns normalized with force_recursive_glob = false, each entity  *)
(* given the file as source.  `fuel` bounds the nesting that is followed.  *)
(***************************************************************************)
Terminal(kind) == kind \in {"RE", "Glob", "Path", "RelGlob", "RelPath", "RelRE", "RootFilesIn"}
TooDeep == [type |-> "TooDeep", a |-> <<>>, b |-> <<>>]

\* the results in order: all Ok gives the concatenation, else the first Err
AllOrFirstErr(rs) ==
    IF \A k \in 1..Len(rs) : rs[k].ok
    THEN Ok(Flatten([k \in 1..Len(rs) |-> rs[k].val]))
    ELSE rs[CHOOSE k \in 1..Len(rs) : ~rs[k].ok /\ \A m \in 1..(k - 1) : rs[m].ok]

RECURSIVE Expected(_, _, _, _, _, _)
ExpectedOfCandidate(kind, cand, dk, rt, cw, force, fuel) ==
    LET r == rewrite(kind, cand, rt, cw, force)
        file == read_to_string(cand)
        subs == IF kind = "ListFile" THEN lines(file.val) ELSE split(file.val, "<nul>")
        inner == Expected(subs, dk, rt, cw, FALSE, fuel - 1)
    IN  IF ~r.ok THEN r
        ELSE IF Terminal(kind) THEN Ok(<<[kind |-> kind, pattern |-> r.val, source |-> <<"None">>]>>)
        ELSE IF kind = "Set" THEN Err(UnsupportedPatternKind(s_set))
        ELSE IF ~file.ok THEN file
        ELSE IF fuel = 0 THEN Err(TooDeep)
        ELSE IF ~inner.ok THEN inner
        ELSE Ok([k \in 1..Len(inner.val) |->
                    [inner.val[k] EXCEPT !.source = <<"Some", cand>>]])

ExpectedOfPattern(p, dk, rt, cw, force, fuel) ==
    LET sp == split_pattern(p, dk)
        cands == IF is_glob(sp.kind) THEN expand_curly_brackets(sp.pat) ELSE <<sp.pat>>
    IN  AllOrFirstErr([c \in 1..Len(cands) |->
            ExpectedOfCandidate(sp.kind, cands[c], dk, rt, cw, force, fuel)])

Expected(ps, dk, rt, cw, force, fuel) ==
    AllOrFirstErr([k \in 1..Len(ps) |-> ExpectedOfPattern(ps[k], dk, rt, cw, force, fuel)])

\* what the outermost call is expected to return
ExpectedRet == Expected(patterns, default_kind, root, cwd, force_recursive_glob, MaxDepth)

\* what raw pattern k of the outermost call yields taken alone
ExpectedAlone(k) ==
    ExpectedOfPattern(patterns[k], default_kind, root, cwd, force_recursive_glob, MaxDepth)

(***************************************************************************)
(* C1: normalize_patterns returns no partial result.  When a candidate of  *)
(* any raw pattern fails, the call returns an Err that carries no entity,  *)
(* and the error is that of the first failing candidate in processing      *)
(* order; a call returns Err only when some candidate failed.              *)
(***************************************************************************)
C1_NoPartialResult ==
    Returned =>
        /\ ~ExpectedRet.ok => ret = RetErr(ExpectedRet.err)
        /\ ret.status = "Err" => ~ExpectedRet.ok /\ ret.val = <<>>

\* a call that fails at its second raw pattern after the first produced entities
C1_Witness ==
    /\ Returned /\ ret.status = "Err"
    /\ Len(patterns) = 2
    /\ ExpectedAlone(1).ok /\ Len(ExpectedAlone(1).val) > 0
    /\ ~ExpectedAlone(2).ok

(***************************************************************************)
(* C2: on success the output is the concatenation, in input order, of the  *)
(* outputs of the raw patterns taken one at a time (each of which lists    *)
(* its curly expansions in expansion order and a list file's entities in   *)
(* the order of its lines, nested files depth-first).                      *)
(***************************************************************************)
C2_OutputInInputOrder ==
    (Returned /\ ret.status = "Ok") =>
        /\ \A k \in 1..Len(patterns) : ExpectedAlone(k).ok
        /\ ret.val = Flatten([k \in 1..Len(patterns) |-> ExpectedAlone(k).val])

\* two raw patterns with different outputs, one of them with several entities
C2_Witness ==
    /\ Returned /\ ret.status = "Ok"
    /\ Len(patterns) = 2
    /\ Len(ExpectedAlone(1).val) > 1
    /\ Len(ExpectedAlone(2).val) > 1
    /\ ExpectedAlone(1).val # ExpectedAlone(2).val

(***************************************************************************)
(* C3: a call given one listfile: or listfile0: pattern naming a readable  *)
(* file returns, for either value of the outer force_recursive_glob, what  *)
(* normalizing the file's lines (or NUL-delimited tokens) directly with    *)
(* the same default kind, root and cwd and force_recursive_glob = false    *)
(* returns, each entity with the listfile path as its source.              *)
(***************************************************************************)
IsListFileKind(kind) == kind \in {"ListFile", "ListFile0"}

\* the entities, each with its source set to path
Sourced(entities, path) ==
    [k \in 1..Len(entities) |-> [entities[k] EXCEPT !.source = <<"Some", path>>]]

C3_ListfileAsDirect ==
    (Returned /\ Len(patterns) = 1) =>
        LET sp == split_pattern(patterns[1], default_kind)
            file == read_to_string(sp.pat)
            subs == IF sp.kind = "ListFile" THEN lines(file.val) ELSE split(file.val, "<nul>")
            direct == Expected(subs, default_kind, root, cwd, FALSE, MaxDepth)
        IN  (IsListFileKind(sp.kind) /\ file.ok) =>
                IF direct.ok THEN ret = RetOk(Sourced(direct.val, sp.pat))
                ELSE ret = RetErr(direct.err)

\* a listfile holding a glob line, read with the outer flag set
C3_Witness ==
    /\ Returned /\ ret.status = "Ok" /\ Len(patterns) = 1
    /\ force_recursive_glob
    /\ IsListFileKind(split_pattern(patterns[1], default_kind).kind)
    /\ \E k \in 1..Len(ret.val) : ret.val[k].kind = "Glob"

(***************************************************************************)
(* C4 as stated: with nested listfiles, an entity produced from the inner  *)
(* file's lines carries the inner file's path as source, so every entity   *)
(* with a source comes from a line of the very file its source names.      *)
(***************************************************************************)
\* entity e is what a line of the file at path yields by itself
FromALineOf(e, path) ==
    LET file == read_to_string(path)
    IN  /\ file.ok
        /\ \E kind \in {"ListFile", "ListFile0"} :
             LET subs == IF kind = "ListFile" THEN lines(file.val) ELSE split(file.val, "<nul>")
             IN  \E n \in 1..Len(subs) :
                   LET sp == split_pattern(subs[n], default_kind)
                       out == ExpectedOfPattern(subs[n], default_kind, root, cwd, FALSE, 0)
                   IN  /\ Terminal(sp.kind)
                       /\ out.ok
                       /\ \E m \in 1..Len(out.val) :
                            out.val[m] = [e EXCEPT !.source = <<"None">>]

C4_InnermostSource ==
    (Returned /\ ret.status = "Ok") =>
        \A k \in 1..Len(ret.val) :
            ret.val[k].source # <<"None">> => FromALineOf(ret.val[k], ret.val[k].source[2])

(***************************************************************************)
(* C4 as amended: every entity the outermost call returns for a listfile   *)
(* pattern carries the path that pattern names, also when the entity       *)
(* comes from the lines of a file nested inside it; entities of other      *)
(* patterns carry no source.                                               *)
(***************************************************************************)
\* the source the entities of raw pattern k of the outermost call carry
OutermostSource(k) ==
    LET sp == split_pattern(patterns[k], default_kind)
    IN  IF IsListFileKind(sp.kind) THEN <<"Some", sp.pat>> ELSE <<"None">>

\* the entities, each with its source field set to src
Resourced(entities, src) ==
    [m \in 1..Len(entities) |-> [entities[m] EXCEPT !.source = src]]

C4_OutermostSource ==
    (Returned /\ ret.status = "Ok") =>
        ret.val = Flatten([k \in 1..Len(patterns) |->
                     Resourced(ExpectedAlone(k).val, OutermostSource(k))])

\* an entity that comes from a line of a nested file and not from a line of the
\* file its source names
C4_Witness ==
    /\ Returned /\ ret.status = "Ok"
    /\ \E k \in 1..Len(ret.val) :
         /\ ret.val[k].source # <<"None">>
         /\ ~FromALineOf(ret.val[k], ret.val[k].source[2])

(***************************************************************************)
(* C5: a candidate of a cwd-relative kind (Glob, RelPath) that resolves    *)
(* against cwd to a path outside the root makes the call fail with         *)
(* PathOutsideRoot(candidate, root), and nothing is emitted for it; a      *)
(* candidate that resolves to the root or below it, and a candidate of     *)
(* any other kind, never produces PathOutsideRoot.  With cwd one level     *)
(* under root, ".." is the root itself and "../.." is outside.             *)
(***************************************************************************)
IsPathOutsideRoot(r) == r.status = "Err" /\ r.err.type = "PathOutsideRoot"

\* resolving candidate c against cwd gives a path outside root
Outside(c) == ~root_relative_path(root, cwd, c).some

C5_Step ==
    /\ InCandidate =>
         IF Top.kind \in {"Glob", "RelPath"} /\ Outside(Top.pats[Top.j])
         THEN ret' = RetErr(PathOutsideRoot(Top.pats[Top.j], root)) /\ stack' = Pop
         ELSE ~IsPathOutsideRoot(ret')
    /\ ~InCandidate => (IsPathOutsideRoot(ret') => ret' = ret)
    /\ cwd = root \o <<"/", "c", "w", "d">> =>
         /\ ~Outside(<<>>)
         /\ ~Outside(<<".", ".">>)
         /\ Outside(<<".", ".", "/", ".", ".">>)

HasKindPrefix(s, k) ==
    /\ Len(s) > Len(name(k))
    /\ SubSeq(s, 1, Len(name(k)) + 1) = name(k) \o <<":">>

ExpectedSplit(s, d) ==
    IF \E k \in PatternKind : HasKindPrefix(s, k)
    THEN LET k == CHOOSE k \in PatternKind : HasKindPrefix(s, k)
         IN  [kind |-> k, pat |-> SubSeq(s, Len(name(k)) + 2, Len(s))]
    ELSE [kind |-> d, pat |-> s]

C6_SplitAtFirstColon ==
    \A n \in 1..Len(stack) :
        /\ \A k \in 1..Len(stack[n].patterns) :
             split_pattern(stack[n].patterns[k], default_kind)
                 = ExpectedSplit(stack[n].patterns[k], default_kind)
        /\ stack[n].i >= 1 =>
             LET e == ExpectedSplit(stack[n].patterns[stack[n].i], default_kind)
             IN  /\ stack[n].kind = e.kind
                 /\ stack[n].pats = IF e.kind \in {"Glob", "RelGlob"}
                                    THEN expand_curly_brackets(e.pat)
                                    ELSE <<e.pat>>

\* a raw pattern with an unrecognized prefix and a second colon has been split
C6_Witness ==
    /\ Len(stack) = 1 /\ stack[1].i = 1
    /\ split_once(patterns[1], ":").some
    /\ ~from_str(split_once(patterns[1], ":").k).ok
    /\ split_once(split_once(patterns[1], ":").p, ":").some
    /\ stack[1].kind = default_kind
    /\ default_kind = "RE"
    /\ stack[1].pats = <<patterns[1]>>

(***************************************************************************)
(* C7: a call that reaches a candidate of kind Set returns                 *)
(* UnsupportedPatternKind("set") and emits nothing for it, whatever root,  *)
(* cwd and force_recursive_glob are; an Err on its way out is handed on    *)
(* unchanged by every caller.                                              *)
(***************************************************************************)
C7_Step ==
    /\ (InCandidate /\ Top.kind = "Set") =>
         /\ ret' = RetErr(UnsupportedPatternKind(<<"s", "e", "t">>))
         /\ stack' = Pop
    /\ ret.status = "Err" => (ret' = ret /\ stack' = Pop)

C7_SetUnsupported == [][C7_Step]_vars

\* the outermost call returned the error of a set: line of a list file
C7_Witness ==
    /\ Returned
    /\ ret = RetErr(UnsupportedPatternKind(<<"s", "e", "t">>))
    /\ Len(patterns) = 1
    /\ IsListFileKind(split_pattern(patterns[1], default_kind).kind)
    /\ default_kind # "Set"

(***************************************************************************)
(* C8: for RE and RelRE, a candidate starting with '^' is emitted without  *)
(* that one '^' and without a '.*?' prefix; a RelRE candidate not starting *)
(* with '^' is emitted as '.*?' followed by the unchanged text; an RE      *)
(* candidate not starting with '^' is emitted unchanged.                   *)
(***************************************************************************)
ExpectedRegex(kind, c) ==
    IF Len(c) > 0 /\ c[1] = "^" THEN Tail(c)
    ELSE IF kind = "RelRE" THEN <<".", "*", "?">> \o c
    ELSE c

C8_RegexAnchoring ==
    \A n \in 1..Len(stack) :
        (stack[n].i >= 1 /\ stack[n].kind \in {"RE", "RelRE"} /\ stack[n].j = 2) =>
            stack[n].result[Len(stack[n].result)]
                = [kind |-> stack[n].kind,
                   pattern |-> ExpectedRegex(stack[n].kind, stack[n].pats[1]),
                   source |-> <<"None">>]

\* an anchored relre candidate has been emitted
C8_Witness ==
    /\ Len(stack) = 1 /\ stack[1].i = 1 /\ stack[1].j = 2
    /\ stack[1].kind = "RelRE"
    /\ Len(stack[1].pats[1]) > 1 /\ stack[1].pats[1][1] = "^"

(***************************************************************************)
(* C9: from_str(name(k)) = Ok(k) for each of the 10 kinds, the 10 names    *)
(* are pairwise distinct, and from_str of a string that is none of them    *)
(* returns UnsupportedPatternKind carrying that string.                    *)
(***************************************************************************)
KindNames == {name(k) : k \in PatternKind}

\* the text `from_str` is handed when raw pattern p is split
PrefixOf(p) == IF split_once(p, ":").some THEN split_once(p, ":").k ELSE p

C9_NameRoundTrip ==
    /\ \A k \in PatternKind : from_str(name(k)) = Ok(k)
    /\ \A k1, k2 \in PatternKind : name(k1) = name(k2) => k1 = k2
    /\ \A n \in 1..Len(stack) : \A k \in 1..Len(stack[n].patterns) :
         PrefixOf(stack[n].patterns[k]) \notin KindNames =>
             from_str(PrefixOf(stack[n].patterns[k]))
                 = Err(UnsupportedPatternKind(PrefixOf(stack[n].patterns[k])))

\* a raw pattern whose prefix is no kind name has been split
C9_Witness ==
    /\ Len(stack) = 1 /\ stack[1].i = 1
    /\ split_once(patterns[1], ":").some
    /\ PrefixOf(patterns[1]) \notin KindNames
    /\ ~from_str(PrefixOf(patterns[1])).ok

(***************************************************************************)
(* C10: the recursive suffix ('/**', or '**' for an empty text) is         *)
(* appended once for Path and RelPath, and for Glob and RelGlob when the   *)
(* call's force_recursive_glob is set; without the flag Glob and RelGlob   *)
(* get no suffix; RootFilesIn becomes '*' or '<text>/*' and the regex      *)
(* kinds give the same output for both values of the flag.                 *)
(***************************************************************************)
Suffixed(b) == IF b = <<>> THEN <<"*", "*">> ELSE b \o <<"/", "*", "*">>

\* candidate c after relativization, cleanup, escaping and tightening
BeforeSuffix(kind, c) ==
    tighten_glob(kind,
      escape_path(kind,
        clean_path(kind, cwd_relativize(kind, c, root, cwd).val)))

ExpectedSuffixing(kind, c, force) ==
    LET b == BeforeSuffix(kind, c)
    IN  CASE kind \in {"Path", "RelPath"} -> Suffixed(b)
          [] kind = "Glob" -> IF force THEN Suffixed(b) ELSE b
          [] kind = "RelGlob" ->
                IF force THEN <<"*", "*", "/">> \o Suffixed(b)
                ELSE IF b = <<>> THEN <<>> ELSE <<"*", "*", "/">> \o b
          [] kind = "RootFilesIn" -> IF b = <<>> THEN <<"*">> ELSE b \o <<"/", "*">>
          [] OTHER -> rewrite(kind, c, root, cwd, ~force).val

C10_RecursiveSuffix ==
    \A n \in 1..Len(stack) :
        (stack[n].i >= 1 /\ Terminal(stack[n].kind) /\ stack[n].j >= 2) =>
            stack[n].result[Len(stack[n].result)].pattern
                = ExpectedSuffixing(stack[n].kind, stack[n].pats[stack[n].j - 1],
                                    stack[n].force)

\* a Path candidate emitted by a call whose flag is set
C10_Witness ==
    /\ Len(stack) = 1 /\ stack[1].i = 1 /\ stack[1].j = 2
    /\ stack[1].kind = "Path" /\ stack[1].force
    /\ Len(stack[1].pats[1]) > 0
    /\ stack[1].result[1].pattern = stack[1].pats[1] \o <<"/", "*", "*">>

(***************************************************************************)
(* C11: a RelGlob candidate whose text is not empty after cleanup is       *)
(* emitted with '**/' in front of it.  One whose text is empty after       *)
(* cleanup ('relglob:', 'relglob:.') is emitted as the empty string when   *)
(* the call's force_recursive_glob is not set; when it is set the forced   *)
(* suffix has made the text '**' before the unrooting, and the candidate   *)
(* is emitted as '**' with '**/' in front of it.                           *)
(***************************************************************************)
UnrootedPrefix == <<"*", "*", "/">>

\* call n has just emitted a RelGlob candidate
EmittedRelGlob(n) ==
    /\ stack[n].i >= 1 /\ stack[n].kind = "RelGlob" /\ stack[n].j >= 2

\* the candidate call n emitted last, after cleanup and tightening
CleanedOf(n) == BeforeSuffix(stack[n].kind, stack[n].pats[stack[n].j - 1])

\* the text of the entity call n emitted last
EmittedOf(n) == stack[n].result[Len(stack[n].result)].pattern

\* e is text b with '**/' in front of it (and at most a suffix behind it)
PrefixedWith(e, b) ==
    /\ Len(e) >= Len(UnrootedPrefix) + Len(b)
    /\ SubSeq(e, 1, Len(UnrootedPrefix) + Len(b)) = UnrootedPrefix \o b

C11_UnrootedPrefix ==
    \A n \in 1..Len(stack) :
        EmittedRelGlob(n) =>
            IF CleanedOf(n) # <<>> THEN PrefixedWith(EmittedOf(n), CleanedOf(n))
            ELSE IF stack[n].force THEN EmittedOf(n) = UnrootedPrefix \o <<"*", "*">>
            ELSE EmittedOf(n) = <<>>

\* the claim as stated: the empty text stays empty for both values of the flag
C11_EmptyStaysEmpty ==
    \A n \in 1..Len(stack) :
        EmittedRelGlob(n) =>
            IF CleanedOf(n) # <<>> THEN PrefixedWith(EmittedOf(n), CleanedOf(n))
            ELSE EmittedOf(n) = <<>>

\* 'relglob:.' emitted by a call whose flag is set
C11_Witness ==
    /\ Len(stack) = 1 /\ EmittedRelGlob(1) /\ stack[1].force
    /\ stack[1].pats[stack[1].j - 1] = <<".">>
    /\ CleanedOf(1) = <<>>
    /\ EmittedOf(1) = <<"*", "*", "/", "*", "*">>

(***************************************************************************)
(* C12: a call whose patterns reach no list file that names itself,        *)
(* directly or through other list files, returns (Ok or Err) at whatever   *)
(* depth its list files nest; a call that nests deeper than the modelled   *)
(* depth, and so does not return in the model, is entering a list file     *)
(* that names itself.                                                      *)
(***************************************************************************)
ListKinds == {"ListFile", "ListFile0"}
ListNodes == ListKinds \X FileNames

\* raw pattern p names list file n, which can be read
Names(p, n, dk, rt, cw) ==
    LET sp == split_pattern(p, dk)
    IN  /\ sp.kind = n[1]
        /\ rewrite(sp.kind, sp.pat, rt, cw, FALSE) = Ok(n[2])

\* the list files the raw patterns ps name, each with the kind naming it
RefsOf(ps, dk, rt, cw) ==
    {n \in ListNodes : \E x \in 1..Len(ps) : Names(ps[x], n, dk, rt, cw)}

\* the list files a list file names in its lines or tokens
Succ(n, dk, rt, cw) ==
    RefsOf(sub_patterns(n[1], read_to_string(n[2]).val), dk, rt, cw)

RECURSIVE ReachFrom(_, _, _, _, _)
ReachFrom(S, k, dk, rt, cw) ==
    LET T == S \cup UNION {Succ(n, dk, rt, cw) : n \in S}
    IN  IF k = 0 \/ T = S THEN S ELSE ReachFrom(T, k - 1, dk, rt, cw)

Reachable(S, dk, rt, cw) == ReachFrom(S, Cardinality(ListNodes), dk, rt, cw)

\* list file n references itself, directly or transitively
OnCycle(n, dk, rt, cw) == n \in Reachable(Succ(n, dk, rt, cw), dk, rt, cw)

\* the patterns of the outermost call name a list file that names itself, or
\* one from which such a file is reached
InputReachesCycle ==
    \E n \in Reachable(RefsOf(patterns, default_kind, root, cwd), default_kind, root, cwd) :
        OnCycle(n, default_kind, root, cwd)

\* the arguments stay as they are (InputReachesCycle depends on nothing else);
\* every call returns, unless its patterns reach a list file that names
\* itself and it is entering one
C12_AcyclicReturns ==
    /\ [][UNCHANGED args]_vars
    /\ <>(Returned \/ (Stalled /\ InputReachesCycle))
    /\ [](Stalled => OnCycle(<<Top.kind, Rewritten.val>>, default_kind, root, cwd))

\* the call for a list file that names a second list file has returned Ok
C12_Witness ==
    /\ Returned /\ ret.status = "Ok"
    /\ ~InputReachesCycle
    /\ <<"ListFile", <<"n", "1">>>> \in RefsOf(patterns, default_kind, root, cwd)
    /\ <<"ListFile", <<"l", "1">>>>
           \in Succ(<<"ListFile", <<"n", "1">>>>, default_kind, root, cwd)
    /\ \E k \in 1..Len(ret.val) : ret.val[k].source = <<"Some", <<"n", "1">>>>

=============================================================================
